---- MODULE Spec2Model ----
(***************************************************************************)
(* Hybrid retrieval core of ai_chatbot_RAG: the sentence-aware chunker,    *)
(* the dual index of HybridRetriever, the query expander's parsing and     *)
(* its fan-out merge.  Strings are sequences of one-character strings;     *)
(* positions are Python's (0-based), slices follow Python's rules for      *)
(* negative and out-of-range indices.                                      *)
(***************************************************************************)
EXTENDS Integers, Sequences, FiniteSets, TLC

VARIABLES
    \* DocumentProcessor.create_chunks
    text, chunk_size, chunk_overlap, start, chunk_id, chunks, cpc,
    \* SemanticQueryExpander.expand_query
    query, num_expansions, response, all_queries, epc,
    \* SemanticQueryExpander.retrieve_with_expansion: the call under way
    expansion_call,
    \* HybridRetriever: the fields of the shared instance
    self_chunks, chunk_embeddings, tokenized_chunks, bm25,
    \* HybridRetriever: the weights and the threshold of the instance
    cosine_weight, bm25_weight, threshold,
    \* the embedding model: cosine of a query's and a text's vectors, in tenths
    model_cos,
    \* the index_chunks call under way, the index as that call found it, and
    \* the outcomes of the calls that have ended
    index_call, index_before, outcomes,
    \* the retrieve call under way: its locals and what it has read; the
    \* number of retrieve calls begun
    retrieve_call, retrievals,
    \* HybridRetriever._normalize_scores: the argument, the value returned
    \* and the position of the call
    scores_arg, normalized, npc,
    \* the retrieve calls that have returned, in the order they returned:
    \* their arguments and the lists they returned
    returned_calls,
    \* QuizGenerator / QuizQuestionGenerator: the _generate_with_llm call and
    \* the _shuffle_options call under way
    generate_call, shuffle_call,
    \* the Flask app: the session cookies, the request handler under way;
    \* RAGQuizSystem.generate_quiz: the call under way
    sessions, handler_call, quiz_call

chunkVars == <<text, chunk_size, chunk_overlap, start, chunk_id, chunks, cpc>>

expandVars == <<query, num_expansions, response, all_queries, epc,
                expansion_call>>

indexFields == <<self_chunks, chunk_embeddings, tokenized_chunks, bm25>>

settings == <<cosine_weight, bm25_weight, threshold>>

retrieverVars == <<indexFields, settings, model_cos, index_call, index_before, outcomes,
                   retrieve_call, retrievals>>

normalizeVars == <<scores_arg, normalized, npc>>

historyVars == <<returned_calls>>

quizVars == <<generate_call, shuffle_call>>

appVars == <<sessions, handler_call, quiz_call>>

vars == <<chunkVars, expandVars, retrieverVars, normalizeVars, historyVars,
         quizVars, appVars>>

(***************************************************************************)
(* Bounds of the model.                                                    *)
(***************************************************************************)
MaxLen == 6
MaxChunkSize == 4
MaxHead == 2
MaxTail == 3
MaxFill == 3
MaxPaddedChunkSize == 12
MaxOverlap == 5
\* chunks a call may emit before the model stops following it
MaxChunks == 8
\* characters in the generation service's output
MaxResponse == 5
MaxExpansions == 2
\* chunks in an indexed document
MaxDocChunks == 2
\* index_chunks calls and retrieve calls in one run
MaxIndexCalls == 2
MaxRetrieveCalls == 1

(***************************************************************************)
(* Python string primitives.  A document text is held as its length and    *)
(* the characters that are not the letter "a" (marks, by 0-based           *)
(* position); a substring of it is held as the span <<lo, hi>> of the      *)
(* positions lo .. hi-1 it occupies.                                       *)
(***************************************************************************)
Min(a, b) == IF a <= b THEN a ELSE b
Max(a, b) == IF a >= b THEN a ELSE b

Whitespace == {" ", "\n", "\t"}

CharAt(t, i) == IF i \in DOMAIN t.marks THEN t.marks[i] ELSE "a"

\* a slice index brought into 0..n the way s[a:b] does
PyIndex(i, n) == IF i < 0 THEN Max(i + n, 0) ELSE Min(i, n)

\* t[a:b]
PySlice(t, a, b) ==
    LET lo == PyIndex(a, t.len)
        hi == PyIndex(b, t.len)
    IN  IF lo >= hi THEN <<lo, lo>> ELSE <<lo, hi>>

SpanLen(sp) == sp[2] - sp[1]

\* t[sp].rfind(d) for a two-character d: the highest position, counted from
\* the start of the span, where d occurs, or -1
RFind(t, sp, d) ==
    LET hits == {p \in DOMAIN t.marks :
                    /\ sp[1] <= p
                    /\ p + Len(d) <= sp[2]
                    /\ \A k \in 1..Len(d) : CharAt(t, p + k - 1) = d[k]}
    IN  IF hits = {} THEN -1
        ELSE (CHOOSE p \in hits : \A q \in hits : q <= p) - sp[1]

\* t[sp].strip()
Strip(t, sp) ==
    LET keep == {i \in sp[1]..(sp[2] - 1) : CharAt(t, i) \notin Whitespace}
    IN  IF keep = {} THEN <<sp[1], sp[1]>>
        ELSE <<CHOOSE i \in keep : \A j \in keep : i <= j,
               (CHOOSE i \in keep : \A j \in keep : j <= i) + 1>>

(***************************************************************************)
(* DocumentProcessor                                                       *)
(***************************************************************************)
Neighbourhood == 100

Delimiters == << <<".", " ">>, <<"!", " ">>, <<"?", " ">>,
                 <<".", "\n">>, <<"!", "\n">>, <<"?", "\n">> >>

\* _find_sentence_boundary: the first delimiter of the list that occurs
\* decides; the result is the position of that occurrence's last character
FindSentenceBoundary(t, sp) ==
    LET found == {k \in 1..Len(Delimiters) : RFind(t, sp, Delimiters[k]) # -1}
    IN  IF found = {} THEN -1
        ELSE LET k == CHOOSE i \in found : \A j \in found : i <= j
             IN  RFind(t, sp, Delimiters[k]) + Len(Delimiters[k]) - 1

\* the end of the window that starts at st (lines 85-96)
WindowEnd(st) ==
    LET end0 == st + chunk_size
    IN  IF end0 < text.len
        THEN LET window_start == Max(st, end0 - Neighbourhood)
                 window_end   == Min(text.len, end0 + Neighbourhood)
                 sentence_end == FindSentenceBoundary(text,
                                     PySlice(text, window_start, window_end))
             IN  IF sentence_end # -1
                 THEN window_start + sentence_end + 1
                 ELSE end0
        ELSE end0

\* the chunk list after the window [st, end) (lines 99-109)
Emit(cs, st, end, id) ==
    LET chunk_text == Strip(text, PySlice(text, st, end))
    IN  IF SpanLen(chunk_text) # 0
        THEN Append(cs, [id |-> id, text |-> chunk_text, start_pos |-> st,
                         end_pos |-> end, length |-> SpanLen(chunk_text)])
        ELSE cs

\* the break of lines 115-116
BreakTest(st) == st >= text.len - chunk_overlap

Chars == {"a", ".", "!", " "}

\* the text whose characters are those of the sequence s
TextOf(s) ==
    [len   |-> Len(s),
     marks |-> [i \in {j - 1 : j \in {k \in 1..Len(s) : s[k] # "a"}} |-> s[i + 1]]]

\* the text h, then n letters, then t
Padded(h, n, t) ==
    LET at(i) == IF i < Len(h) THEN h[i + 1]
                 ELSE IF i >= Len(h) + n THEN t[i - Len(h) - n + 1]
                 ELSE "a"
        ends == (0..(Len(h) - 1)) \cup ((Len(h) + n)..(Len(h) + n + Len(t) - 1))
    IN  [len   |-> Len(h) + n + Len(t),
         marks |-> [i \in {j \in ends : at(j) # "a"} |-> at(i)]]

SeqsUpTo(S, n) == UNION {[1..k -> S] : k \in 0..n}

\* every text of at most MaxLen characters
Texts == {TextOf(s) : s \in SeqsUpTo(Chars, MaxLen)}

FillLens == (0..MaxFill) \cup (Neighbourhood..(Neighbourhood + MaxFill))

\* texts longer than the sentence neighbourhood: a run of letters between a
\* short head and a short tail that may hold terminators
PaddedTexts ==
    {Padded(h, n, t) : h \in SeqsUpTo({".", " "}, MaxHead),
                       t \in SeqsUpTo({"!", " ", "a"}, MaxTail),
                       n \in FillLens}

(***************************************************************************)
(* HybridRetriever.  A chunk text or a query is a sequence of words and    *)
(* punctuation; scores are integers: cosines and normalized BM25 scores in *)
(* tenths, hybrid scores and the threshold in hundredths.                  *)
(***************************************************************************)
CosineWeight == 7
BM25Weight == 3
Threshold == 45
\* 1.0 on the scale of the normalized scores
One == 10

NoneValue == [none |-> TRUE, rows |-> <<>>]

Some(rows) == [none |-> FALSE, rows |-> rows]

Lower(w) == IF w = "W1" THEN "w1" ELSE w

RECURSIVE Tokenize(_)
\* _tokenize: the lower-cased words of a text, punctuation dropped
Tokenize(t) ==
    IF t = <<>> THEN <<>>
    ELSE (IF Head(t) = "." THEN <<>> ELSE <<Lower(Head(t))>>) \o Tokenize(Tail(t))

TextsOf(cs) == [i \in 1..Len(cs) |-> cs[i].text]

\* model.encode(texts): one vector per text, a function of the text alone
Encode(texts) == [i \in 1..Len(texts) |-> [vec |-> texts[i]]]

TokenizeAll(texts) == [i \in 1..Len(texts) |-> Tokenize(texts[i])]

\* BM25Okapi(corpus) divides by the number of documents and by the number
\* of distinct words: it raises on a corpus without documents or words
BM25Raises(corpus) ==
    \/ Len(corpus) = 0
    \/ \A i \in 1..Len(corpus) : corpus[i] = <<>>

Count(w, doc) == Cardinality({k \in 1..Len(doc) : doc[k] = w})

RECURSIVE TermScore(_, _)
\* bm25.get_scores for one document: what the query's words score in it
TermScore(qt, doc) ==
    IF qt = <<>> THEN 0 ELSE Count(Head(qt), doc) + TermScore(Tail(qt), doc)

GetScores(corpus, qt) == [i \in 1..Len(corpus) |-> TermScore(qt, corpus[i])]

SeqMin(xs) == CHOOSE x \in {xs[i] : i \in 1..Len(xs)} : \A i \in 1..Len(xs) : x <= xs[i]
SeqMax(xs) == CHOOSE x \in {xs[i] : i \in 1..Len(xs)} : \A i \in 1..Len(xs) : x >= xs[i]

\* a normalization that answers zeros for a vector without spread
NormalizeZeroSpread(scores) ==
    IF Len(scores) = 0 THEN scores
    ELSE IF SeqMax(scores) - SeqMin(scores) < 1
         THEN [i \in 1..Len(scores) |-> 0]
         ELSE [i \in 1..Len(scores) |->
                  ((scores[i] - SeqMin(scores)) * One)
                      \div (SeqMax(scores) - SeqMin(scores))]

\* _normalize_scores (lines 88-99), raw scores being whole numbers
NormalizeScores(scores) ==
    IF Len(scores) = 0 THEN scores
    ELSE IF SeqMax(scores) - SeqMin(scores) < 1
         THEN [i \in 1..Len(scores) |-> One]
         ELSE [i \in 1..Len(scores) |->
                  ((scores[i] - SeqMin(scores)) * One)
                      \div (SeqMax(scores) - SeqMin(scores))]

\* cosine_similarity([query_embedding], chunk_embeddings)[0]
CosineScores(q, rows) == [i \in 1..Len(rows) |-> model_cos[q][rows[i].vec]]

\* numpy adds two vectors of the same length, or stretches one of length 1
Broadcasts(a, b) == Len(a) = Len(b) \/ Len(a) = 1 \/ Len(b) = 1

At(a, i) == IF Len(a) = 1 THEN a[1] ELSE a[i]

\* the weighted sum with the two weights exchanged
HybridScoresSwapped(cos, bmn) ==
    [i \in 1..(IF Len(cos) = 1 THEN Len(bmn) ELSE Len(cos)) |->
        bm25_weight * At(cos, i) + cosine_weight * At(bmn, i)]

\* lines 130-133
HybridScores(cos, bmn) ==
    [i \in 1..(IF Len(cos) = 1 THEN Len(bmn) ELSE Len(cos)) |->
        cosine_weight * At(cos, i) + bm25_weight * At(bmn, i)]

\* lines 137-145 index the three score vectors by the chunk's position: a
\* position past the end of one of them raises IndexError
ResultsRaise(cs, hybrid, cos, bmn, th) ==
    \E n \in 1..Len(cs) :
        \/ n > Len(hybrid)
        \/ hybrid[n] >= th /\ (n > Len(cos) \/ n > Len(bmn))

\* the filter keeping only the chunks strictly above the threshold
RECURSIVE ResultsAbove(_, _, _, _, _)
ResultsAbove(cs, hybrid, cos, bmn, th) ==
    IF cs = <<>> THEN <<>>
    ELSE LET n    == Len(cs)
             rest == ResultsAbove(SubSeq(cs, 1, n - 1), hybrid, cos, bmn, th)
         IN  IF hybrid[n] > th
             THEN Append(rest, [chunk |-> cs[n], hybrid_score |-> hybrid[n],
                                cosine_score |-> cos[n],
                                bm25_score |-> bmn[n], text |-> cs[n].text])
             ELSE rest

\* the filter keeping the chunks at or below the threshold
RECURSIVE ResultsAtMost(_, _, _, _, _)
ResultsAtMost(cs, hybrid, cos, bmn, th) ==
    IF cs = <<>> THEN <<>>
    ELSE LET n    == Len(cs)
             rest == ResultsAtMost(SubSeq(cs, 1, n - 1), hybrid, cos, bmn, th)
         IN  IF hybrid[n] <= th
             THEN Append(rest, [chunk |-> cs[n], hybrid_score |-> hybrid[n],
                                cosine_score |-> cos[n],
                                bm25_score |-> bmn[n], text |-> cs[n].text])
             ELSE rest

\* lines 136-145: the chunks at or above the threshold, in chunk order
RECURSIVE Results(_, _, _, _, _)
Results(cs, hybrid, cos, bmn, th) ==
    IF cs = <<>> THEN <<>>
    ELSE LET n    == Len(cs)
             rest == Results(SubSeq(cs, 1, n - 1), hybrid, cos, bmn, th)
         IN  IF hybrid[n] >= th
             THEN Append(rest, [chunk |-> cs[n], hybrid_score |-> hybrid[n],
                                cosine_score |-> cos[n],
                                bm25_score |-> bmn[n], text |-> cs[n].text])
             ELSE rest

\* a descending sort that puts the later of two equal keys first
RECURSIVE SortTiesReversed(_)
SortTiesReversed(rs) ==
    IF rs = <<>> THEN <<>>
    ELSE LET n      == Len(rs)
             sorted == SortTiesReversed(SubSeq(rs, 1, n - 1))
             before == {k \in 1..Len(sorted) :
                           sorted[k].hybrid_score > rs[n].hybrid_score}
             pos    == Cardinality(before)
         IN  SubSeq(sorted, 1, pos) \o <<rs[n]>> \o SubSeq(sorted, pos + 1, Len(sorted))

\* list.sort(key = hybrid_score, reverse = True): stable, equal keys keep
\* their order
RECURSIVE SortByScore(_)
SortByScore(rs) ==
    IF rs = <<>> THEN <<>>
    ELSE LET n      == Len(rs)
             sorted == SortByScore(SubSeq(rs, 1, n - 1))
             before == {k \in 1..Len(sorted) :
                           sorted[k].hybrid_score >= rs[n].hybrid_score}
             pos    == Cardinality(before)
         IN  SubSeq(sorted, 1, pos) \o <<rs[n]>> \o SubSeq(sorted, pos + 1, Len(sorted))

TextPool == {<<"W1">>, <<"w2">>, <<".">>}

QueryPool == {<<"w1">>, <<"w2">>}

\* chunk lists as create_chunks numbers them
DocOf(texts) == [i \in 1..Len(texts) |-> [id |-> i - 1, text |-> texts[i]]]

Docs == {DocOf(ts) : ts \in SeqsUpTo(TextPool, MaxDocChunks)}

\* an embedding model that scores a text by the words it shares with the query
SharedWordCosine ==
    [q \in QueryPool |-> [t \in TextPool |->
        IF \E i \in 1..Len(Tokenize(t)) : Count(Tokenize(t)[i], Tokenize(q)) > 0
        THEN 8 ELSE 4]]

TopKs == {-1, 0, 1, 2}

\* results[:top_k]
TopK(rs, k) == SubSeq(rs, 1, PyIndex(k, Len(rs)))

\* retrieve (lines 112-151) run without interruption on the fields as they are
Retrieve(q, k) ==
    IF self_chunks = <<>> \/ chunk_embeddings.none \/ bm25.none
    THEN [raised |-> TRUE, results |-> <<>>]
    ELSE IF chunk_embeddings.rows = <<>>
    THEN [raised |-> TRUE, results |-> <<>>]
    ELSE LET cos    == CosineScores(q, chunk_embeddings.rows)
             bmn    == NormalizeScores(GetScores(bm25.rows, Tokenize(q)))
             hybrid == HybridScores(cos, bmn)
         IN  IF ~Broadcasts(cos, bmn) \/ ResultsRaise(self_chunks, hybrid, cos, bmn, threshold)
             THEN [raised |-> TRUE, results |-> <<>>]
             ELSE [raised |-> FALSE,
                   results |-> TopK(SortByScore(
                                   Results(self_chunks, hybrid, cos, bmn, threshold)), k)]

NoIndexCall == [pc |-> "idle", chunks |-> <<>>, texts |-> <<>>]

NoRetrieveCall ==
    [pc |-> "idle", query |-> <<>>, top_k |-> 0,
     embeddings |-> <<>>, cosine_scores |-> <<>>,
     corpus |-> <<>>, bm25_scores_normalized |-> <<>>, hybrid_scores |-> <<>>,
     chunks |-> <<>>, results |-> <<>>]

Ended == {"idle", "returned", "raised"}

\* a constructor that leaves embeddings and a BM25 structure behind
InitFieldsLeftover ==
    /\ self_chunks = <<>>
    /\ chunk_embeddings = Some(Encode(<<<<"W1">>>>))
    /\ bm25 = Some(TokenizeAll(<<<<"W1">>>>))
    /\ tokenized_chunks = <<>>

\* __init__ (lines 37-41)
InitFields ==
    /\ self_chunks = <<>>
    /\ chunk_embeddings = NoneValue
    /\ bm25 = NoneValue
    /\ tokenized_chunks = <<>>

\* __init__ (lines 17-34) with its default arguments
DefaultSettings ==
    /\ cosine_weight = CosineWeight
    /\ bm25_weight = BM25Weight
    /\ threshold = Threshold

\* a retriever that nothing calls
IdleRetriever ==
    /\ InitFields
    /\ DefaultSettings
    /\ model_cos = SharedWordCosine
    /\ index_call = NoIndexCall
    /\ index_before = indexFields
    /\ outcomes = <<>>
    /\ retrieve_call = NoRetrieveCall
    /\ retrievals = 0

\* no create_chunks call under way
IdleChunk ==
    /\ text = [len |-> 0, marks |-> <<>>]
    /\ chunk_size = 1
    /\ chunk_overlap = 0
    /\ start = 0
    /\ chunk_id = 0
    /\ chunks = <<>>
    /\ cpc = "idle"

NoExpansionCall ==
    [pc |-> "idle", expanded_queries |-> <<>>, top_k_per_query |-> 0,
     position |-> 0, all_results |-> <<>>, merged_results |-> <<>>]

\* no expand_query call under way
IdleExpandQuery ==
    /\ query = <<>>
    /\ num_expansions = 0
    /\ response = [ok |-> FALSE, content |-> <<>>]
    /\ all_queries = <<>>
    /\ epc = "idle"

\* no call of the expander under way
IdleExpand ==
    /\ IdleExpandQuery
    /\ expansion_call = NoExpansionCall

\* no retrieve call has returned
NoReturnedCalls == returned_calls = <<>>

\* no quiz generation is under way
NoCall == [pc |-> "idle"]

IdleQuiz ==
    /\ generate_call = NoCall
    /\ shuffle_call = NoCall

\* no request has reached the Flask app, generate_quiz has not been called
IdleApp ==
    /\ sessions = <<>>
    /\ handler_call = NoCall
    /\ quiz_call = NoCall

\* no _normalize_scores call of its own is under way
IdleNormalize ==
    /\ scores_arg = <<>>
    /\ normalized = <<>>
    /\ npc = "idle"

InitLoop ==
    /\ start = 0
    /\ chunk_id = 0
    /\ chunks = <<>>
    /\ cpc = "loop"

InitChunk ==
    /\ text \in Texts
    /\ chunk_size \in 1..MaxChunkSize
    /\ chunk_overlap \in 0..(chunk_size - 1)
    /\ InitLoop
    /\ NoReturnedCalls
    /\ IdleQuiz
    /\ IdleApp
    /\ IdleNormalize
    /\ IdleExpand
    /\ IdleRetriever

InitChunkPadded ==
    /\ text \in PaddedTexts
    /\ chunk_size \in 1..MaxPaddedChunkSize
    /\ chunk_overlap \in 0..Min(chunk_size - 1, MaxOverlap)
    /\ InitLoop
    /\ NoReturnedCalls
    /\ IdleQuiz
    /\ IdleApp
    /\ IdleNormalize
    /\ IdleExpand
    /\ IdleRetriever

\* one iteration of the while loop of create_chunks
CreateChunksIter ==
    /\ cpc = "loop"
    /\ start < text.len
    /\ Len(chunks) < MaxChunks
    /\ LET end == WindowEnd(start)
       IN  /\ chunks' = Emit(chunks, start, end, chunk_id)
           /\ chunk_id' = Len(chunks')
           /\ start' = end - chunk_overlap
           /\ cpc' = IF BreakTest(end - chunk_overlap) THEN "done" ELSE "loop"
    /\ UNCHANGED <<text, chunk_size, chunk_overlap, expandVars, retrieverVars,
                   normalizeVars, historyVars, quizVars, appVars>>

\* the while condition fails: return chunks
CreateChunksExit ==
    /\ cpc = "loop"
    /\ ~(start < text.len)
    /\ cpc' = "done"
    /\ UNCHANGED <<text, chunk_size, chunk_overlap, start, chunk_id, chunks,
                   expandVars, retrieverVars, normalizeVars, historyVars, quizVars, appVars>>

NextChunk == CreateChunksIter \/ CreateChunksExit

SpecChunk == InitChunk /\ [][NextChunk]_vars

SpecChunkPadded == InitChunkPadded /\ [][NextChunk]_vars

(***************************************************************************)
(* QuizDocumentProcessor.create_chunks: the same loop with a progress      *)
(* guard in place of the break, and a boundary search that answers the     *)
(* position of the terminator itself.                                      *)
(***************************************************************************)
\* the longest text given to QuizDocumentProcessor
MaxQuizLen == 5

QuizTexts == {TextOf(s) : s \in SeqsUpTo(Chars, MaxQuizLen)}

\* _find_sentence_boundary (lines 157-162): the first delimiter of the list
\* that occurs decides; the result is where its last occurrence starts
QuizFindSentenceBoundary(t, sp) ==
    LET found == {k \in 1..Len(Delimiters) : RFind(t, sp, Delimiters[k]) # -1}
    IN  IF found = {} THEN -1
        ELSE LET k == CHOOSE i \in found : \A j \in found : i <= j
             IN  RFind(t, sp, Delimiters[k])

\* the end of the window that starts at st (lines 112-123)
QuizWindowEnd(st) ==
    LET end0 == st + chunk_size
    IN  IF end0 < text.len
        THEN LET window_start == Max(st, end0 - Neighbourhood)
                 window_end   == Min(text.len, end0 + Neighbourhood)
                 sentence_end == QuizFindSentenceBoundary(text,
                                     PySlice(text, window_start, window_end))
             IN  IF sentence_end # -1
                 THEN window_start + sentence_end + 1
                 ELSE end0
        ELSE end0

\* the chunk list after the window [st, end) (lines 126-135)
QuizEmit(cs, st, end, id) ==
    LET chunk_text == Strip(text, PySlice(text, st, end))
    IN  IF SpanLen(chunk_text) # 0
        THEN Append(cs, [chunk_id |-> id, text |-> chunk_text,
                         start_char |-> st, end_char |-> end])
        ELSE cs

\* a progress guard that never fires
QuizNextStartUnguarded(cs, end) == end - chunk_overlap

\* lines 138-142: the next start, moved to end when it would not pass the
\* start of the last chunk emitted
QuizNextStart(cs, end) ==
    IF cs # <<>> /\ end - chunk_overlap <= cs[Len(cs)].start_char
    THEN end
    ELSE end - chunk_overlap

InitQuizChunk ==
    /\ text \in QuizTexts
    /\ chunk_size \in 1..MaxChunkSize
    /\ chunk_overlap \in 0..(chunk_size - 1)
    /\ InitLoop
    /\ NoReturnedCalls
    /\ IdleQuiz
    /\ IdleApp
    /\ IdleNormalize
    /\ IdleExpand
    /\ IdleRetriever

\* one iteration of the while loop (lines 110-142)
QuizCreateChunksIter ==
    /\ cpc = "loop"
    /\ start < text.len
    /\ Len(chunks) < MaxChunks
    /\ LET end == QuizWindowEnd(start)
       IN  /\ chunks' = QuizEmit(chunks, start, end, chunk_id)
           /\ chunk_id' = Len(chunks')
           /\ start' = QuizNextStart(chunks', end)
    /\ UNCHANGED <<text, chunk_size, chunk_overlap, cpc, expandVars,
                   retrieverVars, normalizeVars, historyVars, quizVars, appVars>>

NextQuizChunk == QuizCreateChunksIter \/ CreateChunksExit

SpecQuizChunk == InitQuizChunk /\ [][NextQuizChunk]_vars

(***************************************************************************)
(* SemanticQueryExpander.expand_query.  Queries, lines and the service's   *)
(* output are sequences of characters.                                     *)
(***************************************************************************)
\* s.strip()
StripStr(s) ==
    LET keep == {i \in 1..Len(s) : s[i] \notin Whitespace}
    IN  IF keep = {} THEN <<>>
        ELSE SubSeq(s, CHOOSE i \in keep : \A j \in keep : i <= j,
                       CHOOSE i \in keep : \A j \in keep : j <= i)

\* s.split('\n')
RECURSIVE SplitLines(_)
SplitLines(s) ==
    LET breaks == {i \in 1..Len(s) : s[i] = "\n"}
    IN  IF breaks = {} THEN <<s>>
        ELSE LET i == CHOOSE b \in breaks : \A c \in breaks : b <= c
             IN  <<SubSeq(s, 1, i - 1)>> \o SplitLines(SubSeq(s, i + 1, Len(s)))

\* the characters of lstrip's argument (line 90); "bullet" stands for U+2022
Markers == {"0", "1", "2", "3", "4", "5", "6", "7", "8", "9",
            ".", "-", "bullet", "*", ")", " "}

\* s.lstrip(Markers)
LStripMarkers(s) ==
    LET keep == {i \in 1..Len(s) : s[i] \notin Markers}
    IN  IF keep = {} THEN <<>>
        ELSE SubSeq(s, CHOOSE i \in keep : \A j \in keep : i <= j, Len(s))

\* a filter that lets everything through
KeepAll(xs) == xs

\* [f(x) for x in xs if p(x)] for the filters used below
RECURSIVE NonEmptyOnly(_)
NonEmptyOnly(xs) ==
    IF xs = <<>> THEN <<>>
    ELSE (IF Head(xs) # <<>> THEN <<Head(xs)>> ELSE <<>>) \o NonEmptyOnly(Tail(xs))

\* list(dict.fromkeys(xs)): the first occurrence of each entry, in order
RECURSIVE DictFromKeys(_)
DictFromKeys(xs) ==
    IF xs = <<>> THEN <<>>
    ELSE LET front == DictFromKeys(SubSeq(xs, 1, Len(xs) - 1))
             last  == xs[Len(xs)]
         IN  IF \E i \in 1..Len(front) : front[i] = last
             THEN front ELSE Append(front, last)

\* Take cutting one entry late
TakeOneMore(xs, n) == SubSeq(xs, 1, Min(n + 1, Len(xs)))

\* xs[:n] for n >= 0
Take(xs, n) == SubSeq(xs, 1, Min(n, Len(xs)))

\* lines 83-95: the expansions parsed from the service's output
ParseExpansions(content) ==
    LET lines    == SplitLines(StripStr(content))
        cleaned  == NonEmptyOnly([i \in 1..Len(lines) |-> StripStr(lines[i])])
        unmarked == [i \in 1..Len(cleaned) |-> StripStr(LStripMarkers(cleaned[i]))]
    IN  DictFromKeys(NonEmptyOnly(unmarked))

\* the service call raised, or returned no text (the except branch)
ServiceFailure == [ok |-> FALSE, content |-> <<>>]

ServiceOutput(c) == [ok |-> TRUE, content |-> c]

\* lines 71-105
ExpandQueryResult(q, n, resp) ==
    IF ~resp.ok THEN <<q>>
    ELSE <<q>> \o Take(ParseExpansions(resp.content), n)

ResponseChars == {"a", "1", " ", "\t", "\n"}

Responses ==
    {ServiceOutput(c) : c \in SeqsUpTo(ResponseChars, MaxResponse)}
        \cup {ServiceFailure}

Queries == {<<"a">>, <<"a", " ", "a">>, <<"1", "a">>}

InitExpand ==
    /\ query \in Queries
    /\ num_expansions \in 0..MaxExpansions
    /\ response \in Responses
    /\ all_queries = <<>>
    /\ epc = "call"
    /\ expansion_call = NoExpansionCall
    /\ IdleChunk
    /\ NoReturnedCalls
    /\ IdleQuiz
    /\ IdleApp
    /\ IdleNormalize
    /\ IdleRetriever

\* one call of expand_query
ExpandQuery ==
    /\ epc = "call"
    /\ all_queries' = ExpandQueryResult(query, num_expansions, response)
    /\ epc' = "done"
    /\ UNCHANGED <<query, num_expansions, response, expansion_call, chunkVars,
                   retrieverVars, normalizeVars, historyVars, quizVars, appVars>>

NextExpand == ExpandQuery

SpecExpand == InitExpand /\ [][NextExpand]_vars

(***************************************************************************)
(* index_chunks and retrieve on the one retriever the request handlers     *)
(* share.  Each call is a thread; a step is a stretch of the method        *)
(* between two accesses to the shared fields.                              *)
(***************************************************************************)
InitIndex ==
    /\ IdleRetriever
    /\ IdleChunk
    /\ NoReturnedCalls
    /\ IdleQuiz
    /\ IdleApp
    /\ IdleNormalize
    /\ IdleExpand

\* lines 50-51
IndexChunksBegin ==
    /\ index_call.pc \in Ended
    /\ Len(outcomes) < MaxIndexCalls
    /\ \E cs \in Docs :
        /\ self_chunks' = cs
        /\ index_call' = [pc |-> "l55", chunks |-> cs, texts |-> TextsOf(cs)]
    /\ index_before' = indexFields
    /\ UNCHANGED <<chunk_embeddings, tokenized_chunks, bm25, settings, model_cos, outcomes,
                   retrieve_call, retrievals, chunkVars, expandVars,
                   normalizeVars, historyVars, quizVars, appVars>>

\* line 55
IndexChunksEncode ==
    /\ index_call.pc = "l55"
    /\ chunk_embeddings' = Some(Encode(index_call.texts))
    /\ index_call' = [index_call EXCEPT !.pc = "l59"]
    /\ UNCHANGED <<self_chunks, tokenized_chunks, bm25, settings, model_cos, index_before,
                   outcomes, retrieve_call, retrievals, chunkVars, expandVars,
                   normalizeVars, historyVars, quizVars, appVars>>

\* line 55, the embedding model raising
IndexChunksEncodeRaises ==
    /\ index_call.pc = "l55"
    /\ index_call' = [index_call EXCEPT !.pc = "raised"]
    /\ outcomes' = Append(outcomes, "raised")
    /\ UNCHANGED <<indexFields, settings, model_cos, index_before, retrieve_call,
                   retrievals, chunkVars, expandVars, normalizeVars,
                   historyVars, quizVars, appVars>>

\* line 59
IndexChunksTokenize ==
    /\ index_call.pc = "l59"
    /\ tokenized_chunks' = TokenizeAll(index_call.texts)
    /\ index_call' = [index_call EXCEPT !.pc = "l60"]
    /\ UNCHANGED <<self_chunks, chunk_embeddings, bm25, settings, model_cos, index_before,
                   outcomes, retrieve_call, retrievals, chunkVars, expandVars,
                   normalizeVars, historyVars, quizVars, appVars>>

\* line 60
IndexChunksBM25 ==
    /\ index_call.pc = "l60"
    /\ IF BM25Raises(tokenized_chunks)
       THEN /\ index_call' = [index_call EXCEPT !.pc = "raised"]
            /\ outcomes' = Append(outcomes, "raised")
            /\ UNCHANGED bm25
       ELSE /\ bm25' = Some(tokenized_chunks)
            /\ index_call' = [index_call EXCEPT !.pc = "returned"]
            /\ outcomes' = Append(outcomes, "returned")
    /\ UNCHANGED <<self_chunks, chunk_embeddings, tokenized_chunks, settings, model_cos,
                   index_before, retrieve_call, retrievals, chunkVars,
                   expandVars, normalizeVars, historyVars, quizVars, appVars>>

\* lines 112-113
RetrieveBegin ==
    /\ retrieve_call.pc \in Ended
    /\ retrievals < MaxRetrieveCalls
    /\ retrievals' = retrievals + 1
    /\ \E q \in QueryPool, k \in TopKs :
        retrieve_call' =
            [NoRetrieveCall EXCEPT
                !.query = q, !.top_k = k,
                !.pc = IF self_chunks = <<>> \/ chunk_embeddings.none \/ bm25.none
                       THEN "raised" ELSE "l116"]
    /\ UNCHANGED <<indexFields, settings, model_cos, index_call, index_before, outcomes,
                   chunkVars, expandVars, normalizeVars, historyVars, quizVars, appVars>>

\* lines 116-120; cosine_similarity rejects an array without rows
RetrieveCosine ==
    /\ retrieve_call.pc = "l116"
    /\ retrieve_call' =
           IF chunk_embeddings.rows = <<>>
           THEN [retrieve_call EXCEPT !.pc = "raised"]
           ELSE [retrieve_call EXCEPT
                    !.embeddings = chunk_embeddings.rows,
                    !.cosine_scores = CosineScores(retrieve_call.query,
                                                   chunk_embeddings.rows),
                    !.pc = "l123"]
    /\ UNCHANGED <<indexFields, settings, model_cos, index_call, index_before, outcomes,
                   retrievals, chunkVars, expandVars, normalizeVars,
                   historyVars, quizVars, appVars>>

\* line 116, the embedding model raising
RetrieveEncodeRaises ==
    /\ retrieve_call.pc = "l116"
    /\ retrieve_call' = [retrieve_call EXCEPT !.pc = "raised"]
    /\ UNCHANGED <<indexFields, settings, model_cos, index_call, index_before, outcomes,
                   retrievals, chunkVars, expandVars, normalizeVars,
                   historyVars, quizVars, appVars>>

\* lines 123-133
RetrieveBM25 ==
    /\ retrieve_call.pc = "l123"
    /\ LET bmn == NormalizeScores(GetScores(bm25.rows,
                                            Tokenize(retrieve_call.query)))
           cos == retrieve_call.cosine_scores
       IN  retrieve_call' =
               IF ~Broadcasts(cos, bmn)
               THEN [retrieve_call EXCEPT !.corpus = bm25.rows, !.pc = "raised"]
               ELSE [retrieve_call EXCEPT
                        !.corpus = bm25.rows,
                        !.bm25_scores_normalized = bmn,
                        !.hybrid_scores = HybridScores(cos, bmn),
                        !.pc = "l136"]
    /\ UNCHANGED <<indexFields, settings, model_cos, index_call, index_before, outcomes,
                   retrievals, chunkVars, expandVars, normalizeVars,
                   historyVars, quizVars, appVars>>

\* lines 136-151
RetrieveResults ==
    /\ retrieve_call.pc = "l136"
    /\ LET cos    == retrieve_call.cosine_scores
           bmn    == retrieve_call.bm25_scores_normalized
           hybrid == retrieve_call.hybrid_scores
       IN  retrieve_call' =
               IF ResultsRaise(self_chunks, hybrid, cos, bmn, threshold)
               THEN [retrieve_call EXCEPT !.chunks = self_chunks, !.pc = "raised"]
               ELSE [retrieve_call EXCEPT
                        !.chunks = self_chunks,
                        !.results = TopK(SortByScore(
                                        Results(self_chunks, hybrid, cos, bmn, threshold)),
                                        retrieve_call.top_k),
                        !.pc = "returned"]
    /\ UNCHANGED <<indexFields, settings, model_cos, index_call, index_before, outcomes,
                   retrievals, chunkVars, expandVars, normalizeVars,
                   historyVars, quizVars, appVars>>

NextIndex ==
    \/ IndexChunksBegin
    \/ IndexChunksEncode
    \/ IndexChunksEncodeRaises
    \/ IndexChunksTokenize
    \/ IndexChunksBM25
    \/ RetrieveBegin
    \/ RetrieveCosine
    \/ RetrieveEncodeRaises
    \/ RetrieveBM25
    \/ RetrieveResults

SpecIndex == InitIndex /\ [][NextIndex]_vars

(***************************************************************************)
(* The retriever before its first build: the behaviours of SpecIndex up to *)
(* the first index_chunks call that returns. A retrieve call stops at its  *)
(* guard or, were the guard to let it through, at line 116.                *)
(***************************************************************************)
\* line 60, BM25Okapi raising
IndexChunksBM25Raises ==
    /\ BM25Raises(tokenized_chunks)
    /\ IndexChunksBM25

NextUnbuilt ==
    \/ IndexChunksBegin
    \/ IndexChunksEncode
    \/ IndexChunksEncodeRaises
    \/ IndexChunksTokenize
    \/ IndexChunksBM25Raises
    \/ RetrieveBegin

SpecUnbuilt == InitIndex /\ [][NextUnbuilt]_vars

(***************************************************************************)
(* SemanticQueryExpander.retrieve_with_expansion on an indexed retriever.  *)
(* all_results, a dict keyed by chunk id, is the sequence of its values in *)
(* the order their keys were first inserted.                               *)
(***************************************************************************)
CosineValues == {4, 8}

\* the embedding models: every table of cosines of a query and a text
CosineModels == [QueryPool -> [TextPool -> CosineValues]]

\* top_k_per_query: one result per paraphrase, or two
TopKsPerQuery == {1, 2}

\* what expand_query can return for a query: the query, then paraphrases
ExpandedQueryLists ==
    {<<q>> \o ps : q \in QueryPool, ps \in SeqsUpTo(QueryPool, MaxExpansions)}

\* the fields after index_chunks(cs) has returned
Indexed(cs) ==
    /\ self_chunks = cs
    /\ chunk_embeddings = Some(Encode(TextsOf(cs)))
    /\ tokenized_chunks = TokenizeAll(TextsOf(cs))
    /\ bm25 = Some(TokenizeAll(TextsOf(cs)))

PositionOf(all, id) ==
    IF \E n \in 1..Len(all) : all[n].chunk.id = id
    THEN CHOOSE n \in 1..Len(all) : all[n].chunk.id = id
    ELSE 0

WithSource(result, q) ==
    [chunk |-> result.chunk, hybrid_score |-> result.hybrid_score,
     cosine_score |-> result.cosine_score, bm25_score |-> result.bm25_score,
     text |-> result.text, source_query |-> q]

\* lines 145-152 with the comparison turned round
MergeOneLower(all, result, q) ==
    LET n == PositionOf(all, result.chunk.id)
    IN  IF n = 0 THEN Append(all, WithSource(result, q))
        ELSE IF result.hybrid_score < all[n].hybrid_score
             THEN [all EXCEPT ![n] = WithSource(result, q)]
             ELSE all

\* lines 145-152
MergeOne(all, result, q) ==
    LET n == PositionOf(all, result.chunk.id)
    IN  IF n = 0 THEN Append(all, WithSource(result, q))
        ELSE IF result.hybrid_score > all[n].hybrid_score
             THEN [all EXCEPT ![n] = WithSource(result, q)]
             ELSE all

\* lines 144-152
RECURSIVE MergeResults(_, _, _)
MergeResults(all, results, q) ==
    IF results = <<>> THEN all
    ELSE MergeResults(MergeOne(all, Head(results), q), Tail(results), q)

\* lines 136-156 for a list of queries, every retrieval succeeding
RECURSIVE MergeAll(_, _)
MergeAll(qs, k) ==
    IF qs = <<>> THEN <<>>
    ELSE LET n == Len(qs)
         IN  MergeResults(MergeAll(SubSeq(qs, 1, n - 1), k),
                          Retrieve(qs[n], k).results, qs[n])

InitMerge ==
    /\ \/ InitFields
       \/ \E cs \in Docs : ~BM25Raises(TokenizeAll(TextsOf(cs))) /\ Indexed(cs)
    /\ DefaultSettings
    /\ model_cos \in CosineModels
    /\ index_call = NoIndexCall
    /\ index_before = indexFields
    /\ outcomes = <<>>
    /\ retrieve_call = NoRetrieveCall
    /\ retrievals = 0
    /\ \E qs \in ExpandedQueryLists, k \in TopKsPerQuery :
        expansion_call = [NoExpansionCall EXCEPT
                             !.pc = "loop", !.expanded_queries = qs,
                             !.top_k_per_query = k, !.position = 1]
    /\ IdleExpandQuery
    /\ IdleChunk
    /\ NoReturnedCalls
    /\ IdleQuiz
    /\ IdleApp
    /\ IdleNormalize

\* one pass of the loop of line 136
MergeIteration ==
    /\ expansion_call.pc = "loop"
    /\ expansion_call.position <= Len(expansion_call.expanded_queries)
    /\ LET q == expansion_call.expanded_queries[expansion_call.position]
           r == Retrieve(q, expansion_call.top_k_per_query)
       IN  expansion_call' =
               IF r.raised
               THEN [expansion_call EXCEPT !.pc = "raised"]
               ELSE [expansion_call EXCEPT
                        !.all_results = MergeResults(@, r.results, q),
                        !.position = @ + 1]
    /\ UNCHANGED <<query, num_expansions, response, all_queries, epc, chunkVars,
                   retrieverVars, normalizeVars, historyVars, quizVars, appVars>>

\* line 139, the embedding model raising inside retrieve
MergeRetrieveRaises ==
    /\ expansion_call.pc = "loop"
    /\ expansion_call.position <= Len(expansion_call.expanded_queries)
    /\ expansion_call' = [expansion_call EXCEPT !.pc = "raised"]
    /\ UNCHANGED <<query, num_expansions, response, all_queries, epc, chunkVars,
                   retrieverVars, normalizeVars, historyVars, quizVars, appVars>>

\* lines 155-162
MergeFinish ==
    /\ expansion_call.pc = "loop"
    /\ expansion_call.position > Len(expansion_call.expanded_queries)
    /\ expansion_call' =
           [expansion_call EXCEPT
               !.merged_results = SortByScore(expansion_call.all_results),
               !.pc = "returned"]
    /\ UNCHANGED <<query, num_expansions, response, all_queries, epc, chunkVars,
                   retrieverVars, normalizeVars, historyVars, quizVars, appVars>>

NextMerge == MergeIteration \/ MergeRetrieveRaises \/ MergeFinish

SpecMerge == InitMerge /\ [][NextMerge]_vars

(***************************************************************************)
(* retrieve called again and again on an indexed retriever, with a         *)
(* retrieve_with_expansion call in between; every call is one step.        *)
(***************************************************************************)
\* the retrieve calls whose results are kept for comparison
MaxRepeatCalls == 2

InitRepeat ==
    /\ \E cs \in Docs : ~BM25Raises(TokenizeAll(TextsOf(cs))) /\ Indexed(cs)
    /\ DefaultSettings
    /\ model_cos = SharedWordCosine
    /\ index_call = NoIndexCall
    /\ index_before = indexFields
    /\ outcomes = <<>>
    /\ retrieve_call = NoRetrieveCall
    /\ retrievals = 0
    /\ IdleExpand
    /\ IdleChunk
    /\ NoReturnedCalls
    /\ IdleQuiz
    /\ IdleApp
    /\ IdleNormalize

\* lines 101-151, a whole call that returns: its arguments and its list are
\* kept, with the outcome of the latest retrieve_with_expansion call at
\* that moment. A call that raises returns nothing and changes nothing.
RetrieveCall ==
    /\ Len(returned_calls) < MaxRepeatCalls
    /\ \E q \in QueryPool, k \in TopKsPerQuery :
        LET r == Retrieve(q, k)
        IN  /\ ~r.raised
            /\ returned_calls' =
                   Append(returned_calls,
                          [query |-> q, top_k |-> k, results |-> r.results,
                           expansion |-> expansion_call.pc])
    /\ UNCHANGED <<chunkVars, expandVars, retrieverVars, normalizeVars,
                   quizVars, appVars>>

\* a retrieve_with_expansion that sets the retriever's threshold to 1.0
RetrieveWithExpansionResets ==
    /\ expansion_call.pc = "idle"
    /\ \E qs \in ExpandedQueryLists, k \in TopKsPerQuery :
        LET all == MergeAll(qs, k)
        IN  /\ \A n \in 1..Len(qs) : ~Retrieve(qs[n], k).raised
            /\ expansion_call' =
                   [pc |-> "returned", expanded_queries |-> qs,
                    top_k_per_query |-> k, position |-> Len(qs) + 1,
                    all_results |-> all,
                    merged_results |-> SortByScore(all)]
    /\ threshold' = 100
    /\ UNCHANGED <<query, num_expansions, response, all_queries, epc, chunkVars,
                   indexFields, cosine_weight, bm25_weight, model_cos,
                   index_call, index_before, outcomes, retrieve_call,
                   retrievals, normalizeVars, historyVars, quizVars, appVars>>

\* retrieve_with_expansion, lines 126-162: a whole call that returns, every
\* retrieval of lines 136-152 succeeding
RetrieveWithExpansionCall ==
    /\ expansion_call.pc = "idle"
    /\ \E qs \in ExpandedQueryLists, k \in TopKsPerQuery :
        LET all == MergeAll(qs, k)
        IN  /\ \A n \in 1..Len(qs) : ~Retrieve(qs[n], k).raised
            /\ expansion_call' =
                   [pc |-> "returned", expanded_queries |-> qs,
                    top_k_per_query |-> k, position |-> Len(qs) + 1,
                    all_results |-> all,
                    merged_results |-> SortByScore(all)]
    /\ UNCHANGED <<query, num_expansions, response, all_queries, epc, chunkVars,
                   retrieverVars, normalizeVars, historyVars, quizVars, appVars>>

\* retrieve_with_expansion, a whole call in which line 139 raises (the
\* embedding model failing inside retrieve)
RetrieveWithExpansionRaises ==
    /\ expansion_call.pc = "idle"
    /\ expansion_call' = [NoExpansionCall EXCEPT !.pc = "raised"]
    /\ UNCHANGED <<query, num_expansions, response, all_queries, epc, chunkVars,
                   retrieverVars, normalizeVars, historyVars, quizVars, appVars>>

NextRepeat ==
    \/ RetrieveCall
    \/ RetrieveWithExpansionCall
    \/ RetrieveWithExpansionRaises

SpecRepeat == InitRepeat /\ [][NextRepeat]_vars

(***************************************************************************)
(* _normalize_scores called on a score vector of its own.                  *)
(***************************************************************************)
\* the longest score vector and the highest raw score
MaxScores == 3
MaxScore == 2

\* raw BM25 scores: whole numbers, the negative ones of a term found in
\* most documents included
ScoreVectors == SeqsUpTo(-1..MaxScore, MaxScores)

InitNormalize ==
    /\ scores_arg \in ScoreVectors
    /\ normalized = <<>>
    /\ npc = "call"
    /\ IdleChunk
    /\ NoReturnedCalls
    /\ IdleQuiz
    /\ IdleApp
    /\ IdleExpand
    /\ IdleRetriever

\* lines 88-99
NormalizeScoresCall ==
    /\ npc = "call"
    /\ normalized' = NormalizeScores(scores_arg)
    /\ npc' = "done"
    /\ UNCHANGED <<scores_arg, chunkVars, expandVars, retrieverVars,
                   historyVars, quizVars, appVars>>

NextNormalize == NormalizeScoresCall

SpecNormalize == InitNormalize /\ [][NextNormalize]_vars

(***************************************************************************)
(* retrieve on an indexed retriever, for the weights and thresholds a      *)
(* HybridRetriever can be constructed with.                                *)
(***************************************************************************)
\* cosine_weight and bm25_weight: the defaults, cosine alone, BM25 alone
WeightPairs == {<<CosineWeight, BM25Weight>>, <<One, 0>>, <<0, One>>}

\* thresholds: none, the default, two that a hybrid score can equal
Thresholds == {0, Threshold, 58, 100}

\* the embedding models that give every query the same table of cosines: a
\* call reads the table of its own query only
QueryBlindModels ==
    {[q \in QueryPool |-> table] : table \in [TextPool -> CosineValues]}

InitRetrieve ==
    /\ \E cs \in Docs : ~BM25Raises(TokenizeAll(TextsOf(cs))) /\ Indexed(cs)
    /\ \E w \in WeightPairs : cosine_weight = w[1] /\ bm25_weight = w[2]
    /\ threshold \in Thresholds
    /\ model_cos \in QueryBlindModels
    /\ index_call = NoIndexCall
    /\ index_before = indexFields
    /\ outcomes = <<>>
    /\ retrieve_call = NoRetrieveCall
    /\ retrievals = 0
    /\ IdleExpand
    /\ IdleChunk
    /\ NoReturnedCalls
    /\ IdleQuiz
    /\ IdleApp
    /\ IdleNormalize

NextRetrieve ==
    \/ RetrieveBegin
    \/ RetrieveCosine
    \/ RetrieveEncodeRaises
    \/ RetrieveBM25
    \/ RetrieveResults

SpecRetrieve == InitRetrieve /\ [][NextRetrieve]_vars

(***************************************************************************)
(* QuizGenerator._generate_with_llm and                                    *)
(* QuizQuestionGenerator._generate_with_llm: the retry loop around the     *)
(* language-model service.  A reply of the service is its kind (what the   *)
(* JSON extraction makes of it) and, for a list of questions, the kind of  *)
(* each entry as the validation loop sees it.                              *)
(***************************************************************************)
MaxRetries == 3
MaxQuestions == 2
MaxItems == 2

Generators == {"QuizGenerator", "QuizQuestionGenerator"}

\* what the requests of one attempt do: QuizGenerator asks a second time,
\* without JSON mode, when the first request raises
ServiceRuns(g) ==
    IF g = "QuizGenerator"
    THEN {<<"ok">>, <<"raises", "ok">>, <<"raises", "raises">>}
    ELSE {<<"ok">>, <<"raises">>}

ItemKinds == {"valid", "not_dict", "no_question", "no_options"}

\* the replies: plain text without a bracket, an opening bracket that is
\* never closed, text json.loads rejects, a JSON object that holds no list
\* of questions, and a list of entries
Contents ==
    {[kind |-> k, items |-> <<>>] :
        k \in {"plain_text", "unclosed", "bad_json", "no_list"}}
    \cup {[kind |-> "list", items |-> its] : its \in SeqsUpTo(ItemKinds, MaxItems)}

RECURSIVE ValidFrom(_, _)
ValidFrom(items, i) ==
    IF i > Len(items) THEN <<>>
    ELSE IF items[i] = "valid" THEN <<i>> \o ValidFrom(items, i + 1)
    ELSE ValidFrom(items, i + 1)

\* valid: the positions of the entries the validation loop keeps
Valid(content) == ValidFrom(content.items, 1)

\* the try block raises: every request raised, no JSON could be parsed, or
\* no entry was valid
AttemptRaises(run, content) ==
    \/ run[Len(run)] = "raises"
    \/ content.kind # "list"
    \/ Valid(content) = <<>>

\* valid[:num_questions], numbered from 1
Numbered(valid, num) ==
    [i \in 1..Min(Max(num, 0), Len(valid)) |->
        [question_number |-> i, item |-> valid[i], placeholder |-> FALSE]]

FallbackOneShort(num) ==
    [i \in 1..(num - 1) |-> [question_number |-> i, item |-> 0, placeholder |-> TRUE]]

\* _generate_fallback_questions(topic, num)
GenerateFallbackQuestions(num) ==
    [i \in 1..num |-> [question_number |-> i, item |-> 0, placeholder |-> TRUE]]

\* attempt < max_retries - 1 is false
LastAttempt(a) == ~(a < MaxRetries - 1)

InitGenerate ==
    /\ IdleChunk
    /\ NoReturnedCalls
    /\ IdleNormalize
    /\ IdleExpand
    /\ IdleRetriever
    /\ IdleApp
    /\ shuffle_call = NoCall
    /\ \E g \in Generators, num \in 0..MaxQuestions :
          generate_call = [pc |-> "try", generator |-> g, num_questions |-> num,
                           attempt |-> 0, requests |-> 0, valid_counts |-> <<>>,
                           content |-> [kind |-> "none", items |-> <<>>],
                           result |-> <<>>]

\* one pass of the try block that reaches its return
GenerateAttemptReturns ==
    /\ generate_call.pc = "try"
    /\ generate_call.attempt < MaxRetries
    /\ \E run \in ServiceRuns(generate_call.generator), content \in Contents :
          /\ ~AttemptRaises(run, content)
          /\ generate_call' =
                [generate_call EXCEPT
                    !.pc = "returned",
                    !.requests = @ + Len(run),
                    !.valid_counts = Append(@, Len(Valid(content))),
                    !.content = content,
                    !.result = Numbered(Valid(content), generate_call.num_questions)]
    /\ UNCHANGED <<chunkVars, expandVars, retrieverVars, normalizeVars,
                   historyVars, shuffle_call, appVars>>

\* one pass that raises before the last attempt: continue
GenerateAttemptContinues ==
    /\ generate_call.pc = "try"
    /\ generate_call.attempt < MaxRetries
    /\ ~LastAttempt(generate_call.attempt)
    /\ \E run \in ServiceRuns(generate_call.generator), content \in Contents :
          /\ AttemptRaises(run, content)
          /\ generate_call' =
                [generate_call EXCEPT
                    !.attempt = @ + 1,
                    !.requests = @ + Len(run),
                    !.valid_counts = Append(@, 0),
                    !.content = IF run[Len(run)] = "raises"
                                THEN [kind |-> "none", items |-> <<>>]
                                ELSE content]
    /\ UNCHANGED <<chunkVars, expandVars, retrieverVars, normalizeVars,
                   historyVars, shuffle_call, appVars>>

\* the last pass raises: the placeholder questions are returned
GenerateAttemptFallsBack ==
    /\ generate_call.pc = "try"
    /\ generate_call.attempt < MaxRetries
    /\ LastAttempt(generate_call.attempt)
    /\ \E run \in ServiceRuns(generate_call.generator), content \in Contents :
          /\ AttemptRaises(run, content)
          /\ generate_call' =
                [generate_call EXCEPT
                    !.pc = "returned",
                    !.requests = @ + Len(run),
                    !.valid_counts = Append(@, 0),
                    !.content = IF run[Len(run)] = "raises"
                                THEN [kind |-> "none", items |-> <<>>]
                                ELSE content,
                    !.result = GenerateFallbackQuestions(generate_call.num_questions)]
    /\ UNCHANGED <<chunkVars, expandVars, retrieverVars, normalizeVars,
                   historyVars, shuffle_call, appVars>>

NextGenerate ==
    \/ GenerateAttemptReturns
    \/ GenerateAttemptContinues
    \/ GenerateAttemptFallsBack

SpecGenerate == InitGenerate /\ [][NextGenerate]_vars

(***************************************************************************)
(* _shuffle_options of QuizGenerator and QuizQuestionGenerator.  An option *)
(* text is a number; random.shuffle may leave the list in any order.       *)
(***************************************************************************)
MaxOptionTexts == 2

Letters == <<"A", "B", "C", "D">>

LetterSet == {Letters[i] : i \in 1..Len(Letters)}

\* the orders random.shuffle can leave a list of n entries in: entry i of
\* the shuffled list is entry f[i] of the list before
Shuffles(n) == {f \in [1..n -> 1..n] : \A a, b \in 1..n : f[a] = f[b] => a = b}

\* options_list after the shuffle: (old letter, text) pairs
OptionsList(opts, f) ==
    [i \in 1..Len(Letters) |->
        [old_letter |-> Letters[f[i]], text |-> opts[Letters[f[i]]]]]

\* new_options: the texts of the shuffled list under A..D in turn
NewOptions(list) ==
    [l \in LetterSet |->
        list[CHOOSE i \in 1..Len(Letters) : Letters[i] = l].text]

\* a loop that recognises the correct option by its text
RECURSIVE NewCorrectByText(_, _, _, _)
NewCorrectByText(list, opts, correct, i) ==
    IF i = 0 THEN correct
    ELSE IF list[i].text = opts[correct] THEN Letters[i]
    ELSE NewCorrectByText(list, opts, correct, i - 1)

\* question['correct_answer'] after the loop: the letter of the last entry
\* whose old letter is the correct letter, the old value when there is none
RECURSIVE NewCorrect(_, _, _, _)
NewCorrect(list, opts, correct, i) ==
    IF i = 0 THEN correct
    ELSE IF list[i].old_letter = correct THEN Letters[i]
    ELSE NewCorrect(list, opts, correct, i - 1)

InitShuffle ==
    /\ IdleChunk
    /\ NoReturnedCalls
    /\ IdleNormalize
    /\ IdleExpand
    /\ IdleRetriever
    /\ IdleApp
    /\ generate_call = NoCall
    /\ \E opts \in [LetterSet -> 1..MaxOptionTexts], correct \in LetterSet :
          shuffle_call = [pc |-> "call",
                          before |-> [options |-> opts, correct_answer |-> correct],
                          question |-> [options |-> opts, correct_answer |-> correct],
                          options_list |-> <<>>]

ShuffleOptions ==
    /\ shuffle_call.pc = "call"
    /\ \E f \in Shuffles(Len(Letters)) :
          LET opts == shuffle_call.question.options
              correct_letter == shuffle_call.question.correct_answer
              list == OptionsList(opts, f)
          IN  shuffle_call' =
                [shuffle_call EXCEPT
                    !.pc = "returned",
                    !.options_list = list,
                    !.question = [options |-> NewOptions(list),
                                  correct_answer |->
                                      NewCorrect(list, opts, correct_letter,
                                                 Len(Letters))]]
    /\ UNCHANGED <<chunkVars, expandVars, retrieverVars, normalizeVars,
                   historyVars, generate_call, appVars>>

NextShuffle == ShuffleOptions

SpecShuffle == InitShuffle /\ [][NextShuffle]_vars

(***************************************************************************)
(* The Flask app: /upload and /generate of any session work on the one     *)
(* module-level retriever.  A request is served in one step; a session's   *)
(* pdf_path stands for the document it names (its chunk list).             *)
(***************************************************************************)
\* retriever.retrieve(query, top_k=10) and unique_chunks[:15]
AppTopK == 10
AppCut == 15

SessionIds == {"s1", "s2"}

\* the documents uploaded: MaxDocChunks chunks each, every chunk a word
AppDocs == {DocOf(ts) : ts \in [1..MaxDocChunks -> {<<"W1">>, <<"w2">>}]}

NoSession == [pdf_path |-> <<>>, uploaded |-> FALSE]

\* all_chunks: the results of the queries, one list after the other
RECURSIVE AllChunks(_)
AllChunks(qs) ==
    IF qs = <<>> THEN <<>>
    ELSE AllChunks(SubSeq(qs, 1, Len(qs) - 1))
            \o Retrieve(qs[Len(qs)], AppTopK).results

\* lines 120-126: the first result of each text is kept
RECURSIVE UniqueChunks(_)
UniqueChunks(all) ==
    IF all = <<>> THEN <<>>
    ELSE LET n    == Len(all)
             rest == UniqueChunks(SubSeq(all, 1, n - 1))
         IN  IF \E k \in 1..Len(rest) : rest[k].text = all[n].text
             THEN rest
             ELSE Append(rest, all[n])

InitApp ==
    /\ InitFields
    /\ DefaultSettings
    /\ model_cos \in QueryBlindModels
    /\ index_call = NoIndexCall
    /\ index_before = indexFields
    /\ outcomes = <<>>
    /\ retrieve_call = NoRetrieveCall
    /\ retrievals = 0
    /\ IdleExpand
    /\ IdleChunk
    /\ NoReturnedCalls
    /\ IdleQuiz
    /\ IdleNormalize
    /\ sessions = [s \in SessionIds |-> NoSession]
    /\ handler_call = NoCall
    /\ quiz_call = NoCall

\* /upload (lines 50-88) of a PDF that is processed and indexed
UploadPdf ==
    /\ \E s \in SessionIds, cs \in AppDocs :
          /\ self_chunks' = cs
          /\ chunk_embeddings' = Some(Encode(TextsOf(cs)))
          /\ tokenized_chunks' = TokenizeAll(TextsOf(cs))
          /\ bm25' = Some(TokenizeAll(TextsOf(cs)))
          /\ sessions' = [sessions EXCEPT ![s] = [pdf_path |-> cs, uploaded |-> TRUE]]
          /\ handler_call' = [pc |-> "returned", route |-> "upload", session |-> s,
                              status |-> 200]
    /\ UNCHANGED <<chunkVars, expandVars, settings, model_cos, index_call,
                   index_before, outcomes, retrieve_call, retrievals,
                   normalizeVars, historyVars, quizVars, quiz_call>>

\* /generate (lines 91-112) in a session without pdf_path
GenerateWithoutPdf ==
    /\ \E s \in SessionIds :
          /\ ~sessions[s].uploaded
          /\ handler_call' = [pc |-> "returned", route |-> "generate", session |-> s,
                              status |-> 400]
    /\ UNCHANGED <<chunkVars, expandVars, retrieverVars, normalizeVars,
                   historyVars, quizVars, sessions, quiz_call>>

\* /generate with use_expansion (lines 113-128, 132-134)
GenerateWithExpansion ==
    /\ \E s \in SessionIds, qs \in ExpandedQueryLists :
          /\ sessions[s].uploaded
          /\ \A n \in 1..Len(qs) : ~Retrieve(qs[n], AppTopK).raised
          /\ LET all_chunks == AllChunks(qs)
                 unique_chunks == UniqueChunks(all_chunks)
                 cut == TopK(unique_chunks, AppCut)
             IN  handler_call' =
                    [pc |-> "returned", route |-> "generate", session |-> s,
                     status |-> IF cut = <<>> THEN 404 ELSE 200,
                     topic |-> qs[1], use_expansion |-> TRUE,
                     expanded_queries |-> qs, all_chunks |-> all_chunks,
                     unique_chunks |-> unique_chunks, chunks |-> cut]
    /\ UNCHANGED <<chunkVars, expandVars, retrieverVars, normalizeVars,
                   historyVars, quizVars, sessions, quiz_call>>

\* /generate without use_expansion (lines 129-134)
GeneratePlain ==
    /\ \E s \in SessionIds, topic \in QueryPool :
          /\ sessions[s].uploaded
          /\ ~Retrieve(topic, AppTopK).raised
          /\ LET found == Retrieve(topic, AppTopK).results
             IN  handler_call' =
                    [pc |-> "returned", route |-> "generate", session |-> s,
                     status |-> IF found = <<>> THEN 404 ELSE 200,
                     topic |-> topic, use_expansion |-> FALSE,
                     expanded_queries |-> <<>>, all_chunks |-> found,
                     unique_chunks |-> found, chunks |-> found]
    /\ UNCHANGED <<chunkVars, expandVars, retrieverVars, normalizeVars,
                   historyVars, quizVars, sessions, quiz_call>>

NextApp ==
    \/ UploadPdf
    \/ GenerateWithoutPdf
    \/ GenerateWithExpansion
    \/ GeneratePlain

SpecApp == InitApp /\ [][NextApp]_vars

(***************************************************************************)
(* RAGQuizSystem.generate_quiz: the retrieval step on a loaded document,   *)
(* once with and once without query expansion, for the same topic.         *)
(***************************************************************************)
\* top_k_per_query=5 and top_k=10 of main.py
ExpansionTopK == 5
PlainTopK == 10

\* the chunks of a loaded document
MaxQuizDocChunks == 6

QuizDocs == {DocOf(ts) : ts \in [1..MaxQuizDocChunks -> {<<"W1">>, <<"w2">>}]}

InitQuizSystem ==
    /\ \E cs \in QuizDocs : Indexed(cs)
    /\ DefaultSettings
    /\ model_cos \in QueryBlindModels
    /\ index_call = NoIndexCall
    /\ index_before = indexFields
    /\ outcomes = <<>>
    /\ retrieve_call = NoRetrieveCall
    /\ retrievals = 0
    /\ IdleExpand
    /\ IdleChunk
    /\ NoReturnedCalls
    /\ IdleQuiz
    /\ IdleNormalize
    /\ sessions = <<>>
    /\ handler_call = NoCall
    /\ \E topic \in QueryPool :
          quiz_call = [pc |-> "loaded", topic |-> topic,
                       plain_done |-> FALSE, plain |-> <<>>,
                       expanded_done |-> FALSE, expanded_queries |-> <<>>,
                       expanded |-> <<>>]

\* generate_quiz(topic, use_expansion=False): lines 103-106
GenerateQuizPlain ==
    /\ quiz_call.pc = "loaded"
    /\ ~quiz_call.plain_done
    /\ LET r == Retrieve(quiz_call.topic, PlainTopK)
       IN  /\ ~r.raised
           /\ quiz_call' = [quiz_call EXCEPT !.plain_done = TRUE,
                                             !.plain = r.results]
    /\ UNCHANGED <<chunkVars, expandVars, retrieverVars, normalizeVars,
                   historyVars, quizVars, sessions, handler_call>>

\* generate_quiz(topic, use_expansion=True): lines 95-102, expand_query
\* answering the topic followed by paraphrases
GenerateQuizExpanded ==
    /\ quiz_call.pc = "loaded"
    /\ ~quiz_call.expanded_done
    /\ \E qs \in ExpandedQueryLists :
          /\ qs[1] = quiz_call.topic
          /\ \A n \in 1..Len(qs) : ~Retrieve(qs[n], ExpansionTopK).raised
          /\ quiz_call' =
                [quiz_call EXCEPT
                    !.expanded_done = TRUE,
                    !.expanded_queries = qs,
                    !.expanded = SortByScore(MergeAll(qs, ExpansionTopK))]
    /\ UNCHANGED <<chunkVars, expandVars, retrieverVars, normalizeVars,
                   historyVars, quizVars, sessions, handler_call>>

NextQuizSystem == GenerateQuizPlain \/ GenerateQuizExpanded

SpecQuizSystem == InitQuizSystem /\ [][NextQuizSystem]_vars

(***************************************************************************)
(* Claims about DocumentProcessor.create_chunks                            *)
(***************************************************************************)
NonEmptyInput == text.len > 0

\* C6: create_chunks terminates for every non-empty text and every
\* 0 <= overlap < chunk_size.  The body of the loop is a function of text
\* and start alone, so in a call that terminates no iteration that stays in
\* the loop leaves start at the value it began with.
C6_CreateChunksTerminates ==
    [][(cpc = "loop" /\ NonEmptyInput /\ cpc' = "loop") => start' # start]_vars

Window(c) == c.start_pos .. (c.end_pos - 1)

Covered == UNION {Window(chunks[i]) : i \in 1..Len(chunks)}

\* C7: when create_chunks returns, the [start_pos, end_pos) windows of the
\* emitted chunks cover every character position of the text, none skipped.
\* Stated for the positions that hold a non-whitespace character: a window of
\* nothing but whitespace is dropped on purpose (line 101), so a violation
\* here is text that no chunk window holds.
C7_WindowsCoverText ==
    cpc = "done" =>
        \A p \in 0..(text.len - 1) :
            CharAt(text, p) \notin Whitespace => p \in Covered

\* C8: in the returned list the start_pos values of consecutive chunks are
\* strictly increasing and no chunk has empty text.
C8_StartsIncreaseNoEmptyChunk ==
    cpc = "done" =>
        /\ \A i \in 1..(Len(chunks) - 1) :
               chunks[i].start_pos < chunks[i + 1].start_pos
        /\ \A i \in 1..Len(chunks) : chunks[i].length > 0

(***************************************************************************)
(* Claims about HybridRetriever.index_chunks and retrieve                  *)
(***************************************************************************)
\* C1: when an index_chunks call has ended by raising (the embedding model
\* raised, or the BM25 construction did, as it does for zero chunks), the
\* fields chunks, chunk_embeddings, tokenized_chunks and bm25 all have the
\* values they had when the call began.
C1_FailedIndexKeepsFields ==
    index_call.pc = "raised" => indexFields = index_before

\* C2: with index_chunks and retrieve interleaving on the shared retriever
\* and no index_chunks call having raised, the embeddings, the BM25 corpus
\* and the chunks that one returned retrieve call read all belong to one
\* build: the embeddings and the corpus are those of the chunks it read.
C2_RetrieveReadsOneBuild ==
    (retrieve_call.pc = "returned" /\ (\A i \in 1..Len(outcomes) : outcomes[i] # "raised")) =>
        /\ retrieve_call.embeddings = Encode(TextsOf(retrieve_call.chunks))
        /\ retrieve_call.corpus = TokenizeAll(TextsOf(retrieve_call.chunks))

NoBuildYet == \A i \in 1..Len(outcomes) : outcomes[i] # "returned"

\* C13: as long as no index_chunks call has returned (none was made, or
\* every one raised at the embedding or the BM25 step, or one is under
\* way), a retrieve call ends at its guard by raising and has no results.
C13_RetrieveBeforeBuildRaises ==
    NoBuildYet =>
        /\ retrieve_call.pc \in {"idle", "raised"}
        /\ retrieve_call.results = <<>>

\* retrieve has raised on a retriever whose only index_chunks calls raised,
\* the last one at the BM25 step, with its chunks and embeddings in place
C13_Witness ==
    /\ NoBuildYet
    /\ outcomes # <<>>
    /\ index_call.pc = "raised"
    /\ self_chunks # <<>>
    /\ ~chunk_embeddings.none
    /\ chunk_embeddings.rows = Encode(TextsOf(self_chunks))
    /\ retrieve_call.pc = "raised"

\* the positions of the chunks whose hybrid score clears the threshold
Clearing == {n \in 1..Len(retrieve_call.chunks) :
                retrieve_call.hybrid_scores[n] >= threshold}

ReturnedPositions ==
    {retrieve_call.results[i].chunk.id + 1 : i \in 1..Len(retrieve_call.results)}

\* C14: a retrieve call with top_k >= 1 on an indexed retriever returns
\* min(top_k, number of clearing chunks) distinct chunks, each with its own
\* hybrid score and at or above the threshold (a chunk exactly at the
\* threshold counts as clearing), none of them outranked by a clearing
\* chunk left out; once the scores are computed the call does not raise,
\* so with no clearing chunk it returns the empty list.
C14_TopKOfClearingChunks ==
    /\ retrieve_call.pc = "raised" => retrieve_call.cosine_scores = <<>>
    /\ (retrieve_call.pc = "returned" /\ retrieve_call.top_k >= 1) =>
        LET res == retrieve_call.results
            hyb == retrieve_call.hybrid_scores
        IN  /\ Len(res) = Min(retrieve_call.top_k, Cardinality(Clearing))
            /\ Cardinality(ReturnedPositions) = Len(res)
            /\ ReturnedPositions \subseteq Clearing
            /\ \A i \in 1..Len(res) :
                   /\ res[i].hybrid_score = hyb[res[i].chunk.id + 1]
                   /\ res[i].chunk = retrieve_call.chunks[res[i].chunk.id + 1]
                   /\ \A n \in Clearing \ ReturnedPositions :
                          hyb[n] <= res[i].hybrid_score

\* a call with top_k >= 1 has returned a chunk whose hybrid score equals the
\* threshold and has dropped a chunk below the threshold
C14_Witness ==
    /\ retrieve_call.pc = "returned"
    /\ retrieve_call.top_k >= 1
    /\ \E i \in 1..Len(retrieve_call.results) :
           retrieve_call.results[i].hybrid_score = threshold
    /\ \E n \in 1..Len(retrieve_call.chunks) : n \notin Clearing

\* the position, in the chunk list retrieve read, of a result's chunk
ChunkOrder(result) ==
    CHOOSE n \in 1..Len(retrieve_call.chunks) :
        retrieve_call.chunks[n] = result.chunk

\* C15: the list retrieve returns is in non-increasing hybrid_score order,
\* and two results with the same hybrid_score are in the order of their
\* chunks in the list given to index_chunks.
C15_SortedTiesInChunkOrder ==
    retrieve_call.pc = "returned" =>
        LET res == retrieve_call.results
        IN  \A i, j \in 1..Len(res) :
                i < j =>
                    /\ res[i].hybrid_score >= res[j].hybrid_score
                    /\ res[i].hybrid_score = res[j].hybrid_score
                           => ChunkOrder(res[i]) < ChunkOrder(res[j])

\* a call has returned two results with the same hybrid_score
C15_Witness ==
    /\ retrieve_call.pc = "returned"
    /\ \E i, j \in 1..Len(retrieve_call.results) :
           /\ i < j
           /\ retrieve_call.results[i].hybrid_score
                  = retrieve_call.results[j].hybrid_score

(***************************************************************************)
(* Claims about SemanticQueryExpander.retrieve_with_expansion              *)
(***************************************************************************)
\* index_chunks has built an index that retrieve accepts (line 112)
IndexBuilt == self_chunks # <<>> /\ ~chunk_embeddings.none /\ ~bm25.none

\* C3: on an indexed retriever, a paraphrase whose retrieval raises is
\* skipped and the call still returns the merge of the others:
\* retrieve_with_expansion does not end by raising.
C3_FailedParaphraseSkipped == IndexBuilt => expansion_call.pc # "raised"

\* what retrieve returns for each expanded query of the call
Retrieved ==
    [j \in 1..Len(expansion_call.expanded_queries) |->
        Retrieve(expansion_call.expanded_queries[j],
                 expansion_call.top_k_per_query).results]

\* the paraphrase and the position in its results of everything retrieved
Hits(rs) == {h \in (DOMAIN rs) \X (1..MaxDocChunks) : h[2] <= Len(rs[h[1]])}

\* C4: on return, every chunk id that some paraphrase retrieved is in the
\* merged results exactly once, with the highest hybrid_score any paraphrase
\* gave it and with source_query a paraphrase that gave it that score.
C4_MergeKeepsBestPerChunk ==
    expansion_call.pc = "returned" =>
        LET merged == expansion_call.merged_results
            rs     == Retrieved
            hits   == Hits(rs)
            ids    == {rs[h[1]][h[2]].chunk.id : h \in hits}
        IN  /\ {merged[m].chunk.id : m \in 1..Len(merged)} = ids
            /\ Len(merged) = Cardinality(ids)
            /\ \A m \in 1..Len(merged) :
                /\ \A h \in hits :
                       rs[h[1]][h[2]].chunk.id = merged[m].chunk.id
                           => rs[h[1]][h[2]].hybrid_score <= merged[m].hybrid_score
                /\ \E h \in hits :
                    /\ rs[h[1]][h[2]].chunk.id = merged[m].chunk.id
                    /\ rs[h[1]][h[2]].hybrid_score = merged[m].hybrid_score
                    /\ expansion_call.expanded_queries[h[1]]
                           = merged[m].source_query

\* a call has returned in which a later paraphrase scored a chunk higher
\* than an earlier one did, and the merge holds the later one's score
C4_Witness ==
    /\ expansion_call.pc = "returned"
    /\ LET merged == expansion_call.merged_results
           rs     == Retrieved
           hits   == Hits(rs)
       IN  \E m \in 1..Len(merged) : \E h1, h2 \in hits :
               /\ h1[1] < h2[1]
               /\ rs[h1[1]][h1[2]].chunk.id = merged[m].chunk.id
               /\ rs[h2[1]][h2[2]].chunk.id = merged[m].chunk.id
               /\ rs[h1[1]][h1[2]].hybrid_score < rs[h2[1]][h2[2]].hybrid_score
               /\ merged[m].hybrid_score = rs[h2[1]][h2[2]].hybrid_score
               /\ merged[m].source_query = expansion_call.expanded_queries[h2[1]]

\* what the returned call returns for the same query, top_k and index when
\* the retriever's threshold is th (lines 136-151)
ResultsAtThreshold(th) ==
    TopK(SortByScore(Results(retrieve_call.chunks, retrieve_call.hybrid_scores,
                             retrieve_call.cosine_scores,
                             retrieve_call.bm25_scores_normalized, th)),
         retrieve_call.top_k)

\* C17: with the same query, top_k and indexed chunks, retrieve at a higher
\* threshold returns a list no longer than at a lower one: for t1 <= t2 the
\* result at t2 has at most as many entries as the result at t1.
C17_HigherThresholdNoMoreResults ==
    retrieve_call.pc = "returned" =>
        /\ retrieve_call.results = ResultsAtThreshold(threshold)
        /\ \A t1, t2 \in Thresholds :
               (t1 <= t2 /\ threshold \in {t1, t2})
                   => Len(ResultsAtThreshold(t2)) <= Len(ResultsAtThreshold(t1))

\* a call has returned results of which a higher threshold keeps strictly
\* fewer
C17_Witness ==
    /\ retrieve_call.pc = "returned"
    /\ \E t2 \in Thresholds :
           /\ t2 > threshold
           /\ Len(ResultsAtThreshold(t2)) < Len(retrieve_call.results)

\* C18: with cosine_weight = 1 and bm25_weight = 0 the results of retrieve
\* are in the order of their cosine scores alone (non-increasing, equal
\* cosine scores in chunk order); with cosine_weight = 0 and bm25_weight = 1
\* they are in the order of their normalized BM25 scores alone.
C18_SingleWeightOrder ==
    retrieve_call.pc = "returned" =>
        LET res == retrieve_call.results
        IN  /\ (cosine_weight = One /\ bm25_weight = 0) =>
                   \A i, j \in 1..Len(res) :
                       i < j =>
                           /\ res[i].cosine_score >= res[j].cosine_score
                           /\ res[i].cosine_score = res[j].cosine_score
                                  => ChunkOrder(res[i]) < ChunkOrder(res[j])
            /\ (cosine_weight = 0 /\ bm25_weight = One) =>
                   \A i, j \in 1..Len(res) :
                       i < j =>
                           /\ res[i].bm25_score >= res[j].bm25_score
                           /\ res[i].bm25_score = res[j].bm25_score
                                  => ChunkOrder(res[i]) < ChunkOrder(res[j])

\* a retriever weighted on the cosine alone has returned two results of
\* which the first has the higher cosine score and the lower BM25 score
C18_Witness ==
    /\ retrieve_call.pc = "returned"
    /\ cosine_weight = One
    /\ bm25_weight = 0
    /\ Len(retrieve_call.results) = 2
    /\ retrieve_call.results[1].cosine_score > retrieve_call.results[2].cosine_score
    /\ retrieve_call.results[1].bm25_score < retrieve_call.results[2].bm25_score

\* C19: _normalize_scores returns a vector of the argument's length with
\* every entry between 0 and 1; when the scores have a spread every entry is
\* (score - min) / (max - min), to the tenth, the minimum giving 0 and the
\* maximum 1; when they have none every entry is 1.
C19_NormalizedInUnitRange ==
    npc = "done" =>
        /\ Len(normalized) = Len(scores_arg)
        /\ \A i \in 1..Len(normalized) : normalized[i] \in 0..One
        /\ scores_arg # <<>> =>
               LET min_score == SeqMin(scores_arg)
                   max_score == SeqMax(scores_arg)
                   spread    == max_score - min_score
               IN  IF spread >= 1
                   THEN \A i \in 1..Len(normalized) :
                           /\ normalized[i] * spread
                                  <= (scores_arg[i] - min_score) * One
                           /\ (scores_arg[i] - min_score) * One
                                  < (normalized[i] + 1) * spread
                           /\ scores_arg[i] = min_score => normalized[i] = 0
                           /\ scores_arg[i] = max_score => normalized[i] = One
                   ELSE \A i \in 1..Len(normalized) : normalized[i] = One

\* a call has returned a vector holding 0, 1 and a value in between
C19_Witness ==
    /\ npc = "done"
    /\ \E i, j, k \in 1..Len(normalized) :
           /\ normalized[i] = 0
           /\ normalized[j] = One
           /\ 0 < normalized[k] /\ normalized[k] < One

C21_TopKBelowOneRejected ==
    (retrieve_call.pc # "idle" /\ retrieve_call.top_k < 1) =>
        /\ retrieve_call.pc # "returned"
        /\ retrieve_call.cosine_scores = <<>>
        /\ retrieve_call.bm25_scores_normalized = <<>>
        /\ retrieve_call.hybrid_scores = <<>>

\* C22: for 0 <= overlap < chunk_size, QuizDocumentProcessor.create_chunks
\* returns exactly one chunk for every non-empty text shorter than chunk_size.
C22_ShortTextOneChunk ==
    (cpc = "done" /\ 0 < text.len /\ text.len < chunk_size) => Len(chunks) = 1

\* C23: _generate_with_llm makes at most three attempts, stops at the
\* first attempt with at least one valid question and returns those (cut
\* to num_questions), never ends by raising, and after three failed attempts
\* returns exactly num_questions placeholder questions.
C23_BoundedRetriesThenFallback ==
    generate_call.pc # "idle" =>
        LET log == generate_call.valid_counts
            num == generate_call.num_questions
        IN /\ generate_call.pc \in {"try", "returned"}
           /\ generate_call.attempt < MaxRetries
           /\ Len(log) <= MaxRetries
           /\ \A i \in 1..(Len(log) - 1) : log[i] = 0
           /\ generate_call.pc = "try" =>
                 /\ Len(log) = generate_call.attempt
                 /\ \A i \in 1..Len(log) : log[i] = 0
           /\ generate_call.pc = "returned" =>
                 /\ Len(log) = generate_call.attempt + 1
                 /\ log[Len(log)] > 0 =>
                       /\ Len(generate_call.result) = Min(num, log[Len(log)])
                       /\ \A i \in 1..Len(generate_call.result) :
                             ~generate_call.result[i].placeholder
                 /\ log[Len(log)] = 0 =>
                       /\ Len(log) = MaxRetries
                       /\ Len(generate_call.result) = num
                       /\ \A i \in 1..num : generate_call.result[i].placeholder

\* three attempts have failed and the placeholders were returned
C23_Witness ==
    /\ generate_call.pc = "returned"
    /\ generate_call.valid_counts = <<0, 0, 0>>
    /\ generate_call.num_questions = MaxQuestions
    /\ Len(generate_call.result) = MaxQuestions

\* C24: every chunk create_chunks emits lies inside the text:
\* 0 <= start_pos < end_pos <= len(text).
C24_ChunkBoundsInsideText ==
    \A i \in 1..Len(chunks) :
        /\ 0 <= chunks[i].start_pos
        /\ chunks[i].start_pos < chunks[i].end_pos
        /\ chunks[i].end_pos <= text.len

\* the positions of the sentence terminators ('.', '!' or '?' followed by a
\* space or a newline) that lie whole in the neighbourhood of the raw edge
\* of the window starting at st
TerminatorsNear(st) ==
    LET end0 == st + chunk_size
        window_start == Max(st, end0 - Neighbourhood)
        window_end   == Min(text.len, end0 + Neighbourhood)
    IN  {p \in window_start..(window_end - 2) :
            /\ CharAt(text, p) \in {".", "!", "?"}
            /\ CharAt(text, p + 1) \in {" ", "\n"}}

\* C25: an iteration whose raw edge start + chunk_size lies before the end
\* of the text ends its chunk just after the rightmost sentence terminator
\* of the neighbourhood (after its punctuation mark or after the white
\* space that follows it), whichever terminator that is, and at the raw
\* edge when the neighbourhood holds none.
C25_EndsAfterRightmostTerminator ==
    [][(cpc = "loop" /\ 0 <= start /\ start + chunk_size < text.len) =>
          LET end  == start' + chunk_overlap
              near == TerminatorsNear(start)
          IN  IF near = {} THEN end = start + chunk_size
              ELSE LET r == CHOOSE p \in near : \A q \in near : q <= p
                   IN  end \in {r + 1, r + 2}]_vars

\* C28: in QuizDocumentProcessor.create_chunks every iteration of the loop
\* leaves start strictly greater than it found it, start is never negative,
\* and the call terminates: every step that stays in the loop takes start,
\* which the loop's test keeps below len(text), strictly upwards, and
\* leaves the loop able to take its next step.
C28_QuizLoopAdvancesAndEnds ==
    [][/\ 0 <= start /\ 0 <= start'
       /\ cpc' = "loop" =>
             /\ start < text.len /\ start < start'
             /\ start' >= text.len \/ Len(chunks') < MaxChunks]_vars

\* the call has ended after the progress guard set start to end: with an
\* overlap, a chunk starts where the chunk before it ended
C28_Witness ==
    /\ cpc = "done"
    /\ chunk_overlap > 0
    /\ \E i \in 1..(Len(chunks) - 1) : chunks[i + 1].start_char = chunks[i].end_char

\* how often the text t stands among the four options
OptionCount(options, t) == Cardinality({l \in LetterSet : options[l] = t})

\* C27: after _shuffle_options the options hold the same four texts under
\* the letters A to D, each as often as before, and correct_answer labels
\* the very option it labelled before (the entry of the shuffled list that
\* came from the old correct letter), also when option texts repeat.
C27_ShuffleKeepsCorrectOption ==
    shuffle_call.pc = "returned" =>
        LET old == shuffle_call.before
            new == shuffle_call.question
            list == shuffle_call.options_list
        IN  /\ DOMAIN new.options = LetterSet
            /\ \A t \in 1..MaxOptionTexts :
                  OptionCount(new.options, t) = OptionCount(old.options, t)
            /\ new.correct_answer \in LetterSet
            /\ \E i \in 1..Len(Letters) :
                  /\ Letters[i] = new.correct_answer
                  /\ list[i].old_letter = old.correct_answer
            /\ new.options[new.correct_answer] = old.options[old.correct_answer]

\* a shuffle moved the correct option to another letter while another
\* option with the same text stayed under the old correct letter's text
C27_Witness ==
    /\ shuffle_call.pc = "returned"
    /\ shuffle_call.question.correct_answer # shuffle_call.before.correct_answer
    /\ \E l \in LetterSet :
          /\ l # shuffle_call.before.correct_answer
          /\ shuffle_call.before.options[l] =
                shuffle_call.before.options[shuffle_call.before.correct_answer]
    /\ \E l \in LetterSet :
          shuffle_call.before.options[l] #
              shuffle_call.before.options[shuffle_call.before.correct_answer]

\* C26: in /generate with use_expansion the deduplicated list holds, for a
\* chunk several queries returned, the occurrence with the highest
\* hybrid_score, and it is in descending hybrid_score order before the cut,
\* as the merge of retrieve_with_expansion is.
C26_AppDedupKeepsHighestSorted ==
    (/\ handler_call.pc = "returned"
     /\ handler_call.route = "generate"
     /\ handler_call.status # 400
     /\ handler_call.use_expansion) =>
        LET u   == handler_call.unique_chunks
            all == handler_call.all_chunks
        IN  /\ \A i \in 1..Len(u) : \A j \in 1..Len(all) :
                  all[j].chunk = u[i].chunk =>
                      u[i].hybrid_score >= all[j].hybrid_score
            /\ \A i, j \in 1..Len(u) :
                  i < j => u[i].hybrid_score >= u[j].hybrid_score

\* C29: a /generate request of a session is answered only from chunks of
\* the document that session uploaded, whatever other sessions upload or
\* generate in between.
C29_AnsweredFromOwnDocument ==
    (/\ handler_call.pc = "returned"
     /\ handler_call.route = "generate"
     /\ handler_call.status # 400) =>
        LET own == sessions[handler_call.session].pdf_path
        IN  \A i \in 1..Len(handler_call.chunks) :
                \E n \in 1..Len(own) : own[n] = handler_call.chunks[i].chunk

\* C30: for the same document and topic, every chunk generate_quiz
\* retrieves without query expansion is among the chunks it retrieves with
\* query expansion.
C30_ExpansionKeepsPlainChunks ==
    (quiz_call.pc = "loaded" /\ quiz_call.plain_done /\ quiz_call.expanded_done) =>
        \A i \in 1..Len(quiz_call.plain) :
            \E j \in 1..Len(quiz_call.expanded) :
                quiz_call.expanded[j].chunk = quiz_call.plain[i].chunk

\* C16: the list retrieve_with_expansion returns is in non-increasing
\* hybrid_score order, and two merged results with the same hybrid_score
\* are in the order of their chunks in the indexed chunk list, whichever
\* paraphrase found each of them first.
C16_MergedTiesInChunkOrder ==
    expansion_call.pc = "returned" =>
        LET merged == expansion_call.merged_results
        IN  \A i, j \in 1..Len(merged) :
                i < j =>
                    /\ merged[i].hybrid_score >= merged[j].hybrid_score
                    /\ merged[i].hybrid_score = merged[j].hybrid_score
                           => merged[i].chunk.id < merged[j].chunk.id

Orders(n) == {f \in [1..n -> 1..n] : \A a, b \in 1..n : f[a] = f[b] => a = b}

\* C5: the merged results (chunks, scores, source queries and list order)
\* are the same whatever the order in which the paraphrases are retrieved
\* and merged, ties of score included.
C5_MergeOrderIndependent ==
    expansion_call.pc = "returned" =>
        LET qs == expansion_call.expanded_queries
        IN  \A f \in Orders(Len(qs)) :
                SortByScore(MergeAll([j \in 1..Len(qs) |-> qs[f[j]]],
                                     expansion_call.top_k_per_query))
                    = expansion_call.merged_results

(***************************************************************************)
(* Claims about SemanticQueryExpander.expand_query                         *)
(***************************************************************************)
\* C9: for every query, every num_expansions >= 0 and every output of the
\* generation service, failure included, expand_query returns a list whose
\* first element is the original query and whose length is between 1 and
\* num_expansions + 1.
C9_OriginalFirstLengthBounded ==
    epc = "done" =>
        /\ Len(all_queries) >= 1
        /\ Len(all_queries) <= num_expansions + 1
        /\ all_queries[1] = query

\* C9 witness: the service listed more topics than asked for and the list
\* was cut to num_expansions of them.
C9_Witness ==
    /\ epc = "done"
    /\ response.ok
    /\ num_expansions >= 1
    /\ Len(ParseExpansions(response.content)) > num_expansions
    /\ Len(all_queries) = num_expansions + 1

\* C10: the list returned by expand_query contains no duplicate entries.
C10_NoDuplicates ==
    epc = "done" =>
        \A i, j \in 1..Len(all_queries) : all_queries[i] = all_queries[j] => i = j

\* the service's output holds nothing but marker characters and line breaks
MarkerOnly(content) ==
    \A i \in 1..Len(content) : content[i] \in Markers \cup {"\n"}

\* C11: expand_query always returns; when the generation call failed or its
\* response could not be parsed, and when the response is empty or holds
\* only marker characters, it returns exactly [query].
C11_DegradesToQuery ==
    /\ epc \in {"call", "done", "idle"}
    /\ epc = "done" =>
           ((~response.ok \/ MarkerOnly(response.content))
                => all_queries = <<query>>)

\* a call has returned [query] for a response of digits and spaces that is
\* not empty, with expansions asked for
C11_Witness ==
    /\ epc = "done"
    /\ response.ok
    /\ num_expansions >= 1
    /\ \E i \in 1..Len(response.content) : response.content[i] = "1"
    /\ MarkerOnly(response.content)
    /\ all_queries = <<query>>

\* the pipeline as the specification words it: lines, trimmed, leading
\* markers stripped, empty lines dropped, first occurrences kept
WordedPipeline(content) ==
    LET lines    == SplitLines(content)
        unmarked == [i \in 1..Len(lines) |-> LStripMarkers(StripStr(lines[i]))]
    IN  DictFromKeys(NonEmptyOnly(unmarked))

\* C12: the expansions after the original query are the worded pipeline's
\* result cut to num_expansions entries, and none of them is empty or
\* starts with a marker character.
C12_ExpansionsFollowPipeline ==
    (epc = "done" /\ response.ok) =>
        /\ Tail(all_queries) = Take(WordedPipeline(response.content), num_expansions)
        /\ \A i \in 2..Len(all_queries) :
               /\ all_queries[i] # <<>>
               /\ all_queries[i][1] \notin Markers

====
